---- MODULE Spec2Model ----
(***************************************************************************)
(* Fused loss / gradient engines of HugeCTR (src/HugeCTR/src/loss.cu):     *)
(* CrossEntropyLoss, BinaryCrossEntropyLoss and MultiCrossEntropyLoss.     *)
(*                                                                         *)
(* Numbers.  A float or double of the program is a fixed-point integer in  *)
(* units of 1/ONE.  Every division of the program is a division that       *)
(* rounds (towards zero, symmetric in the sign as IEEE rounding is), every *)
(* product of two fractional values is rescaled by ONE.  exp and log are   *)
(* the C library's: they are modelled by one table of e^k, k = -8..3,      *)
(* interpolated linearly and saturating outside the table.                 *)
(*                                                                         *)
(* Tensors.  A tensor is a record [dims, fmt, data]; data is a function    *)
(* from 0..n-1 (the flat index of the device buffer) to values.            *)
(***************************************************************************)
EXTENDS Integers, Sequences, FiniteSets, TLC

VARIABLES
  scaler,      \* compile-time gradient multiplier (SCALE_128 ... or 1)
  debug,       \* TRUE when the build has no NDEBUG
  inT,         \* the input (prediction) tensor
  labT,        \* the label tensor
  lossT,       \* the loss tensor (one element)
  curDevice,   \* the process's current device
  engine,      \* the constructed engine: kind, device id, weight buffer
  ctor,        \* bookkeeping of the constructor attempts
  call,        \* bookkeeping of the fused_loss_computation calls
  stream,      \* operations enqueued on the caller's stream, not yet run
  snap,        \* what the operations of the call now running started from
  threads      \* the threads of one kernel launch: positions, registers, accesses

vars == <<scaler, debug, inT, labT, lossT, curDevice, engine, ctor, call, stream, snap, threads>>

-----------------------------------------------------------------------------
(* Fixed-point arithmetic *)

\* the float 1.0f
ONE == 4096

\* the float 0.5f of the label thresholds
HALF == ONE \div 2

\* const float MIN_ = 1e-6: the smallest positive value of the fixed-point grid
MIN_ == 1

\* const float MIN_X = -707.f
MIN_X == (0 - 707) * ONE

\* a / b for b > 0, rounding towards zero
Div(a, b) == IF a >= 0 THEN a \div b ELSE 0 - ((0 - a) \div b)

\* the product of two fixed-point values
Mul(a, b) == Div(a * b, ONE)

\* the quotient of two fixed-point values
FDiv(a, b) == Div(a * ONE, b)

\* e^k in units of 1/ONE for k = -8 .. 3 (entry k + 9)
ExpT == <<1, 4, 10, 28, 75, 204, 554, 1507, 4096, 11134, 30265, 82268>>

ExpLo == 0 - 8
ExpHi == 3

\* exp(x): linear between the table's points, saturating outside it
Exp(x) ==
  IF x <= ExpLo * ONE THEN ExpT[1]
  ELSE IF x >= ExpHi * ONE THEN ExpT[ExpHi + 9]
  ELSE LET k == (x - ExpLo * ONE) \div ONE
           f == (x - ExpLo * ONE) % ONE
       IN  ExpT[k + 1] + Div((ExpT[k + 2] - ExpT[k + 1]) * f, ONE)

\* log(v): the inverse of Exp on the table, saturating outside it
\* (log of 0 or of a negative value saturates one unit below the table)
Ln(v) ==
  IF v < ExpT[1] THEN (ExpLo - 1) * ONE
  ELSE IF v >= ExpT[ExpHi + 9] THEN ExpHi * ONE
  ELSE LET k == CHOOSE j \in 1..(ExpHi + 8) : ExpT[j] <= v /\ v < ExpT[j + 1]
       IN  (k - 9) * ONE + Div((v - ExpT[k]) * ONE, ExpT[k + 1] - ExpT[k])

RECURSIVE SumRange(_, _, _)
\* f[lo] + ... + f[hi]
SumRange(f, lo, hi) ==
  IF lo > hi THEN 0
  ELSE IF lo = hi THEN f[lo]
  ELSE LET mid == (lo + hi) \div 2
       IN  SumRange(f, lo, mid) + SumRange(f, mid + 1, hi)

\* f[0] + ... + f[n-1]
SumTo(f, n) == SumRange(f, 0, n - 1)

Min(a, b) == IF a < b THEN a ELSE b

RECURSIVE Prod(_)
\* the element count of a shape
Prod(d) == IF d = <<>> THEN 1 ELSE Head(d) * Prod(Tail(d))


RECURSIVE StrideSum(_, _, _, _)
\* f[i] + f[i+step] + ... over the indices below n: one thread's stride loop
StrideSum(f, i, n, step) ==
  IF i >= n THEN 0 ELSE f[i] + StrideSum(f, i + step, n, step)

-----------------------------------------------------------------------------
(* CrossEntropy_Kernel: two-way softmax, one block *)

CE_id1(i, batch_size, feature_dim, row_major) ==
  IF row_major THEN i * feature_dim ELSE i

CE_id2(i, batch_size, feature_dim, row_major) ==
  IF row_major THEN i * feature_dim + 1 ELSE i + batch_size

\* a0 (pos = 0) or a1 (pos = 1) of sample i
CE_a(input, i, pos, batch_size, feature_dim, row_major) ==
  LET z0_exp == Exp(input[CE_id1(i, batch_size, feature_dim, row_major)])
      z1_exp == Exp(input[CE_id2(i, batch_size, feature_dim, row_major)])
  IN  IF pos = 0 THEN FDiv(z0_exp, z0_exp + z1_exp) ELSE FDiv(z1_exp, z0_exp + z1_exp)

CE_no_click(label, i) == label[i] < HALF

\* the value stored for sample i at id1 (pos = 0) or id2 (pos = 1)
CE_grad(input, label, i, pos, batch_size, feature_dim, row_major, S) ==
  LET a   == CE_a(input, i, pos, batch_size, feature_dim, row_major)
      hit == IF pos = 0 THEN CE_no_click(label, i) ELSE ~CE_no_click(label, i)
  IN  Div(a - (IF hit THEN ONE ELSE 0), batch_size) * S

\* the term sample i adds to loss_s[tid]
CE_term(input, label, i, batch_size, feature_dim, row_major) ==
  Mul(0 - ONE, Ln(CE_a(input, i, IF CE_no_click(label, i) THEN 0 ELSE 1,
                       batch_size, feature_dim, row_major)))

\* the sample and the position (0: id1, 1: id2, 2: neither) that own flat index j
CE_owner(j, batch_size, feature_dim, row_major) ==
  IF row_major
    THEN [i |-> j \div feature_dim, pos |-> IF j % feature_dim < 2 THEN j % feature_dim ELSE 2]
    ELSE [i |-> j % batch_size, pos |-> IF j \div batch_size < 2 THEN j \div batch_size ELSE 2]

\* the flat indices the kernel stores to
CE_written(input, batch_size, feature_dim, row_major) ==
  { j \in DOMAIN input :
      LET o == CE_owner(j, batch_size, feature_dim, row_major)
      IN  o.i < batch_size /\ o.pos < 2 }

\* the whole launch <<<1, blockDim>>>: the input buffer and cel_loss[0] it leaves
CrossEntropy_Kernel(input, label, batch_size, feature_dim, row_major, S, blockDim) ==
  LET terms  == [i \in 0..(batch_size - 1) |->
                   CE_term(input, label, i, batch_size, feature_dim, row_major)]
      loss_s == [tid \in 0..(blockDim - 1) |-> StrideSum(terms, tid, batch_size, blockDim)]
      wr     == CE_written(input, batch_size, feature_dim, row_major)
  IN  [data |-> [j \in DOMAIN input |->
                   IF j \in wr
                     THEN LET o == CE_owner(j, batch_size, feature_dim, row_major)
                          IN  CE_grad(input, label, o.i, o.pos, batch_size, feature_dim,
                                      row_major, S)
                     ELSE input[j]],
       loss |-> Div(SumTo(loss_s, blockDim), batch_size),
       written |-> wr]

-----------------------------------------------------------------------------
(* BinaryCrossEntropy_Kernel: single-logit sigmoid, one block *)

BCE_x(input, i) == IF input[i] < MIN_X THEN MIN_X ELSE input[i]

BCE_val(input, i) == FDiv(ONE, ONE + Exp(0 - BCE_x(input, i)))

BCE_term(input, label, i) ==
  LET val == BCE_val(input, i)
      y   == label[i]
  IN  Mul(y, Ln(val + MIN_)) + Mul(ONE - y, Ln(ONE - val + MIN_))

BCE_grad(input, label, i, batch_size, S) ==
  LET exp_neg_x == Exp(0 - BCE_x(input, i))
      val       == BCE_val(input, i)
      y         == label[i]
  IN  Div(FDiv(Mul(Mul(Mul(0 - ONE, val), y - val), exp_neg_x), ONE - val + MIN_),
          batch_size) * S

\* the whole launch <<<1, blockDim>>>: the input buffer and bce_loss[0] it leaves
BinaryCrossEntropy_Kernel(input, label, S, batch_size, blockDim) ==
  LET terms  == [i \in 0..(batch_size - 1) |-> BCE_term(input, label, i)]
      loss_s == [tid \in 0..(blockDim - 1) |-> StrideSum(terms, tid, batch_size, blockDim)]
      wr     == { j \in DOMAIN input : j < batch_size }
  IN  [data |-> [j \in DOMAIN input |->
                   IF j \in wr THEN BCE_grad(input, label, j, batch_size, S) ELSE input[j]],
       loss |-> Div(0 - SumTo(loss_s, blockDim), batch_size),
       written |-> wr]

-----------------------------------------------------------------------------
(* MultiCrossEntropy_Kernel: weighted multi-label sigmoid, a grid of blocks *)

cross_entropy_loss(x, y) ==
  LET exp_neg_x == IF x < MIN_X THEN Exp(0 - MIN_X) ELSE Exp(0 - x)
      val       == FDiv(ONE, ONE + exp_neg_x)
  IN  Mul(y, Ln(val + MIN_)) + Mul(ONE - y, Ln(ONE - val + MIN_))

cross_entropy_loss_backward(x, y) ==
  LET exp_neg_x == IF x < MIN_X THEN Exp(0 - MIN_X) ELSE Exp(0 - x)
      val       == FDiv(ONE, ONE + exp_neg_x)
  IN  FDiv(Mul(Mul(Mul(0 - ONE, val), y - val), exp_neg_x), ONE - val + MIN_)

\* label[i] < -0.5: the cell is absent
MCE_masked(label, i) == label[i] < 0 - HALF

\* the loss of element i (what the loop adds to loss_s)
MCE_loss(input, label, target_weight, i, labels_per_sample) ==
  IF MCE_masked(label, i) THEN 0
  ELSE Mul(target_weight[i % labels_per_sample], cross_entropy_loss(input[i], label[i]))

\* the value stored to input[i] were the divisor the number of unmasked elements
MCE_grad_PerUnmasked(input, label, target_weight, i, size, labels_per_sample, S) ==
  IF MCE_masked(label, i) THEN 0
  ELSE Div(Mul(target_weight[i % labels_per_sample],
               cross_entropy_loss_backward(input[i], label[i])),
           Cardinality({k \in 0..(size - 1) : ~MCE_masked(label, k)})) * S

\* the value stored to input[i]
MCE_grad(input, label, target_weight, i, size, labels_per_sample, S) ==
  IF MCE_masked(label, i) THEN 0
  ELSE Div(Mul(target_weight[i % labels_per_sample],
               cross_entropy_loss_backward(input[i], label[i])), size) * S

\* atomic_global_sum_div(val, acc, div): one atomic add of val / div into *acc
atomic_global_sum_div(val, acc, div) == acc + Div(val, div)

\* bce_loss[0] after the threads 0 .. n-1 have each done their atomic add
\* (the adds commute: the word ends as acc plus what each thread adds)
MCE_reduce(loss_s, n, acc, size) ==
  acc + SumTo([tid \in 0..(n - 1) |-> atomic_global_sum_div(0 - loss_s[tid], 0, size)], n)

\* the whole launch <<<gridDim, blockDim>>> (gridDim >= 1) on a loss word holding acc
MultiCrossEntropy_Kernel(input, label, target_weight, acc, batchsize, labels_per_sample, S, gridDim, blockDim) ==
  LET size        == batchsize * labels_per_sample
      num_threads == blockDim * gridDim
      elems       == [i \in 0..(size - 1) |->
                        MCE_loss(input, label, target_weight, i, labels_per_sample)]
      loss_s      == [tid \in 0..(num_threads - 1) |-> StrideSum(elems, tid, size, num_threads)]
      wr          == { j \in DOMAIN input : j < size }
  IN  [data |-> [j \in DOMAIN input |->
                   IF j \in wr
                     THEN MCE_grad(input, label, target_weight, j, size, labels_per_sample, S)
                     ELSE input[j]],
       loss |-> MCE_reduce(loss_s, num_threads, acc, size),
       written |-> wr]

-----------------------------------------------------------------------------
(* Tensors, the device context and the stream *)

\* the bounds of the model
MaxCalls == 2
MaxCtor == 2
Big == 129

Scalers == {1, 128, 256, 512, 1024}
Devices == {0, 1}
LabVals == {0 - ONE, 0, ONE}

InPats == {<<ONE, 0 - ONE, 2 * ONE>>, <<(0 - 2) * ONE, 3 * ONE, HALF>>}
LabPats == {<<ONE, 0, ONE>>, <<0 - ONE, ONE, 0>>}
Weights == {<<ONE, 2 * ONE>>, <<ONE, ONE, 3 * ONE>>, <<2 * ONE>>}

\* the loss word holds whatever the allocation left there
LossInit == 7 * ONE

\* a buffer of n values repeating the pattern pat
Fill(n, pat) == [i \in 0..(n - 1) |-> pat[(i % Len(pat)) + 1]]

\* Tensor<float>: get_dims(), get_format(), get_ptr()
Tensor(dims, fmt, pat) == [dims |-> dims, fmt |-> fmt, data |-> Fill(Prod(dims), pat)]

\* get_size() in elements
NumElems(t) == Prod(t.dims)

\* the (input, label) shapes and layouts the engines are built on
Shapes ==
  { [in |-> <<2, 2>>,    infmt |-> "HW", lab |-> <<2, 1>>,   labfmt |-> "HW"],
    [in |-> <<2, 2>>,    infmt |-> "WH", lab |-> <<1, 2>>,   labfmt |-> "WH"],
    [in |-> <<2, 2>>,    infmt |-> "HW", lab |-> <<1, 2>>,   labfmt |-> "WH"],
    [in |-> <<2, 2>>,    infmt |-> "HW", lab |-> <<3, 1>>,   labfmt |-> "HW"],
    [in |-> <<2, 2>>,    infmt |-> "WH", lab |-> <<2, 3>>,   labfmt |-> "WH"],
    [in |-> <<2, 2>>,    infmt |-> "HW", lab |-> <<2>>,      labfmt |-> "HW"],
    [in |-> <<2, 3>>,    infmt |-> "HW", lab |-> <<2, 3>>,   labfmt |-> "HW"],
    [in |-> <<2, 3>>,    infmt |-> "WH", lab |-> <<2, 3>>,   labfmt |-> "WH"],
    [in |-> <<2, 3>>,    infmt |-> "HW", lab |-> <<2, 2>>,   labfmt |-> "HW"],
    [in |-> <<2, 3>>,    infmt |-> "HW", lab |-> <<3, 3>>,   labfmt |-> "HW"],
    [in |-> <<2, 3, 1>>, infmt |-> "HW", lab |-> <<2, 3>>,   labfmt |-> "HW"],
    [in |-> <<Big, 2>>,  infmt |-> "HW", lab |-> <<Big, 2>>, labfmt |-> "HW"],
    [in |-> <<2, 1>>,    infmt |-> "HW", lab |-> <<2, 1>>,   labfmt |-> "HW"],
    [in |-> <<1, 2>>,    infmt |-> "WH", lab |-> <<1, 2>>,   labfmt |-> "WH"],
    [in |-> <<3, 1>>,    infmt |-> "HW", lab |-> <<2, 1>>,   labfmt |-> "HW"],
    [in |-> <<2, 1>>,    infmt |-> "HW", lab |-> <<1, 2>>,   labfmt |-> "WH"] }

\* get_set_device(n_device, &o_device): make n_device current, report the old one
get_set_device(n_device, cur) == [cur |-> n_device, o_device |-> cur]

\* what a read of label[i], i < n, yields: the buffer's value, or, past the
\* buffer's end, whatever lies there (g)
LabelView(lab, n, g) ==
  [i \in 0..(n - 1) |-> IF i < NumElems(lab) THEN lab.data[i] ELSE g[i - NumElems(lab) + 1]]

\* the values that may lie past the end of the label buffer, for k reads
Garbage(k) == IF k <= 0 THEN {<<>>} ELSE [1..k -> LabVals]

row_major(t) == t.fmt = "HW"
batch_size(t) == IF row_major(t) THEN t.dims[1] ELSE t.dims[2]
feature_dim(t) == IF row_major(t) THEN t.dims[2] ELSE t.dims[1]

-----------------------------------------------------------------------------
(* Validation and launch configuration *)

\* the checks of CrossEntropyLoss::fused_loss_computation with the batch check
\* of the column-major layout left out
CE_Validate_NoColumnBatch(input_tensor, label_tensor) ==
  IF input_tensor.fmt # label_tensor.fmt THEN "WrongInput"
  ELSE IF feature_dim(input_tensor) # 2 THEN "WrongInput"
  ELSE IF row_major(input_tensor) /\ input_tensor.dims[1] # label_tensor.dims[1]
    THEN "WrongInput"
  ELSE "ok"

\* the checks of CrossEntropyLoss::fused_loss_computation
CE_Validate(input_tensor, label_tensor) ==
  IF input_tensor.fmt # label_tensor.fmt THEN "WrongInput"
  ELSE IF feature_dim(input_tensor) # 2 THEN "WrongInput"
  ELSE IF row_major(input_tensor) /\ input_tensor.dims[1] # label_tensor.dims[1]
    THEN "WrongInput"
  ELSE IF ~row_major(input_tensor) /\ input_tensor.dims[2] # label_tensor.dims[2]
    THEN "WrongInput"
  ELSE "ok"

\* the checks of BinaryCrossEntropyLoss::fused_loss_computation with the
\* layout check left out
BCE_Validate_NoLayout(input_tensor, label_tensor) ==
  IF feature_dim(input_tensor) # 1 THEN "WrongInput" ELSE "ok"

\* the checks of BinaryCrossEntropyLoss::fused_loss_computation
BCE_Validate(input_tensor, label_tensor) ==
  IF input_tensor.fmt # label_tensor.fmt THEN "WrongInput"
  ELSE IF feature_dim(input_tensor) # 1 THEN "WrongInput"
  ELSE "ok"

\* the checks of the constructor asking only that the two layouts agree
MCE_Validate_AnyLayout(label_tensor, input_tensor, target_weight) ==
  IF \/ Len(label_tensor.dims) # 2 \/ Len(input_tensor.dims) # 2
     \/ label_tensor.fmt # input_tensor.fmt
     \/ label_tensor.dims[1] # input_tensor.dims[1]
     \/ label_tensor.dims[2] # input_tensor.dims[2]
    THEN "shape"
  ELSE IF Len(target_weight) # input_tensor.dims[2] THEN "weight"
  ELSE "ok"

\* the two checks of the MultiCrossEntropyLoss constructor: "shape" when the
\* first throws, "weight" when the second throws, "ok" when neither does
MCE_Validate(label_tensor, input_tensor, target_weight) ==
  IF \/ Len(label_tensor.dims) # 2 \/ label_tensor.fmt # "HW"
     \/ Len(input_tensor.dims) # 2 \/ input_tensor.fmt # "HW"
     \/ label_tensor.dims[1] # input_tensor.dims[1]
     \/ label_tensor.dims[2] # input_tensor.dims[2]
    THEN "shape"
  ELSE IF Len(target_weight) # input_tensor.dims[2] THEN "weight"
  ELSE "ok"

\* const int BLOCK_SIZE = 256
BLOCK_SIZE == 256

\* the 40 of GRID_SIZE
MaxGrid == 40

\* the 1024 of block_size
MaxBlock == 1024

\* int block_size = min(batch_size, 1024)
block_size(n) == Min(n, MaxBlock)

\* GRID_SIZE without its cap
GRID_SIZE_NoCap(batchsize, labels_per_sample) ==
  Div(batchsize * labels_per_sample - 1, BLOCK_SIZE)

\* const int GRID_SIZE = min(40, (batchsize * labels_per_sample - 1) / BLOCK_SIZE)
GRID_SIZE(batchsize, labels_per_sample) ==
  Min(MaxGrid, Div(batchsize * labels_per_sample - 1, BLOCK_SIZE))

\* a launch <<<grid, block>>> with no block or no thread is refused
\* (invalid configuration): no thread runs
LaunchFails(grid, block) == grid < 1 \/ block < 1

-----------------------------------------------------------------------------
(* Construction *)

\* no launch is being followed thread by thread
NoKernel == [on |-> FALSE]

NoEngine == [kind |-> "none", device_id |-> 0, weight |-> <<>>]

\* the constructor with the weight-length check placed after the weights are
\* loaded: the buffer is allocated, the device switched and the copy made first
MCE_Construct_LateCheck(label_tensor, input_tensor, target_weight, device_id, cur, c) ==
  LET v     == MCE_Validate(label_tensor, input_tensor, target_weight)
      there == get_set_device(device_id, cur)
      back  == get_set_device(there.o_device, there.cur)
  IN  IF v = "shape"
        THEN [ret |-> "WrongInput", engine |-> NoEngine, cur |-> cur,
              nAlloc |-> c.nAlloc, nMemcpy |-> c.nMemcpy, nSetDevice |-> c.nSetDevice]
      ELSE IF v = "weight"
        THEN [ret |-> "WrongInput", engine |-> NoEngine, cur |-> back.cur,
              nAlloc |-> c.nAlloc + 1, nMemcpy |-> c.nMemcpy + 1,
              nSetDevice |-> c.nSetDevice + 2]
      ELSE [ret |-> "ok",
            engine |-> [kind |-> "MCE", device_id |-> device_id,
                        weight |-> [i \in 0..(label_tensor.dims[2] - 1) |->
                                      target_weight[i + 1]]],
            cur |-> back.cur,
            nAlloc |-> c.nAlloc + 1, nMemcpy |-> c.nMemcpy + 1,
            nSetDevice |-> c.nSetDevice + 2]

\* MultiCrossEntropyLoss::MultiCrossEntropyLoss, from the current device cur and
\* the counters c: the outcome, the engine, the current device and the counters
MCE_Construct(label_tensor, input_tensor, target_weight, device_id, cur, c) ==
  IF MCE_Validate(label_tensor, input_tensor, target_weight) # "ok"
    THEN [ret |-> "WrongInput", engine |-> NoEngine, cur |-> cur,
          nAlloc |-> c.nAlloc, nMemcpy |-> c.nMemcpy, nSetDevice |-> c.nSetDevice]
    ELSE LET there == get_set_device(device_id, cur)
             back  == get_set_device(there.o_device, there.cur)
         IN  [ret |-> "ok",
              engine |-> [kind |-> "MCE", device_id |-> device_id,
                          weight |-> [i \in 0..(label_tensor.dims[2] - 1) |->
                                        target_weight[i + 1]]],
              cur |-> back.cur,
              nAlloc |-> c.nAlloc + 1, nMemcpy |-> c.nMemcpy + 1,
              nSetDevice |-> c.nSetDevice + 2]

\* CrossEntropyLoss::CrossEntropyLoss and BinaryCrossEntropyLoss::BinaryCrossEntropyLoss:
\* bind the three tensors, no check
Construct(kind, device_id) ==
  /\ engine.kind = "none"
  /\ ctor.n < MaxCtor
  /\ engine' = [kind |-> kind, device_id |-> device_id, weight |-> <<>>]
  /\ ctor' = [ctor EXCEPT !.n = @ + 1, !.ret = "ok", !.args = <<kind, device_id>>]
  /\ UNCHANGED <<scaler, debug, inT, labT, lossT, curDevice, call, stream, snap, threads>>

ConstructMCE(target_weight, device_id) ==
  /\ engine.kind = "none"
  /\ ctor.n < MaxCtor
  /\ LET r == MCE_Construct(labT, inT, target_weight, device_id, curDevice, ctor)
     IN  /\ engine' = r.engine
         /\ curDevice' = r.cur
         /\ ctor' = [n |-> ctor.n + 1, ret |-> r.ret, args |-> <<"MCE", device_id, target_weight>>,
                     nAlloc |-> r.nAlloc, nMemcpy |-> r.nMemcpy, nSetDevice |-> r.nSetDevice]
  /\ UNCHANGED <<scaler, debug, inT, labT, lossT, call, stream, snap, threads>>

-----------------------------------------------------------------------------
(* The device work of a call: the operations it puts on the stream *)

\* the operations a call number k enqueues, in order
CE_Ops(k) ==
  <<[k |-> k, op |-> "kernel", first |-> TRUE, last |-> TRUE,
     grid |-> 1, block |-> block_size(batch_size(inT))]>>

MCE_Ops(k) ==
  LET grid == GRID_SIZE(inT.dims[1], inT.dims[2])
      zero == [k |-> k, op |-> "memset", first |-> TRUE, last |-> LaunchFails(grid, BLOCK_SIZE),
               grid |-> 0, block |-> 0]
      kern == [k |-> k, op |-> "kernel", first |-> FALSE, last |-> TRUE,
               grid |-> grid, block |-> BLOCK_SIZE]
  IN  IF LaunchFails(grid, BLOCK_SIZE) THEN <<zero>> ELSE <<zero, kern>>

\* how many label elements the kernel of the engine reads
LabelReads ==
  IF engine.kind = "MCE" THEN inT.dims[1] * inT.dims[2] ELSE batch_size(inT)

\* the reads of the label buffer past its end, for operation op
PastEnd(op) == IF op.op = "kernel" THEN LabelReads - NumElems(labT) ELSE 0

\* the buffers [data, loss, written] the kernel of the engine leaves, from the
\* input buffer in, the label values lab it reads and the loss buffer loss
KernelRun(in, lab, loss, S, grid, block) ==
  IF engine.kind = "CE"
    THEN CrossEntropy_Kernel(in, lab, batch_size(inT), feature_dim(inT), row_major(inT), S, block)
  ELSE IF engine.kind = "BCE"
    THEN BinaryCrossEntropy_Kernel(in, lab, S, batch_size(inT), block)
  ELSE MultiCrossEntropy_Kernel(in, lab, engine.weight, loss[0], inT.dims[1], inT.dims[2],
                                S, grid, block)

\* cudaMemsetAsync(loss, 0, get_size()): every element of the loss buffer
Memset0(loss) == [i \in DOMAIN loss |-> 0]

\* the kernel launched with its input and label pointers exchanged in the
\* store: the gradient lands in the label buffer
ApplyOp_StoresToLabel(st, op, g) ==
  LET lab == LabelView([labT EXCEPT !.data = st.lab],
                       IF op.op = "kernel" THEN LabelReads ELSE NumElems(labT), g)
      r   == KernelRun(st.in, lab, st.loss, scaler, op.grid, op.block)
      lab2  == IF op.op = "kernel"
                 THEN [i \in DOMAIN st.lab |-> IF i \in DOMAIN r.data THEN r.data[i] ELSE st.lab[i]]
                 ELSE st.lab
      loss2 == IF op.op = "kernel" THEN [st.loss EXCEPT ![0] = r.loss] ELSE Memset0(st.loss)
      wr    == IF op.op = "kernel" THEN r.written ELSE {}
  IN  [in |-> st.in, lab |-> lab2, loss |-> loss2,
       snap |-> IF op.first
                  THEN [k |-> op.k, in |-> st.in, lab |-> lab, loss0 |-> st.loss[0],
                        fin |-> op.last, written |-> wr]
                  ELSE [st.snap EXCEPT !.fin = op.last, !.written = wr]]

\* the state st = [in, lab, loss, snap] of the buffers after operation op has
\* run, g being what lies past the end of the label buffer
ApplyOp(st, op, g) ==
  LET lab == LabelView([labT EXCEPT !.data = st.lab],
                       IF op.op = "kernel" THEN LabelReads ELSE NumElems(labT), g)
      r   == KernelRun(st.in, lab, st.loss, scaler, op.grid, op.block)
      in2   == IF op.op = "kernel" THEN r.data ELSE st.in
      loss2 == IF op.op = "kernel" THEN [st.loss EXCEPT ![0] = r.loss] ELSE Memset0(st.loss)
      wr    == IF op.op = "kernel" THEN r.written ELSE {}
  IN  [in |-> in2, lab |-> st.lab, loss |-> loss2,
       snap |-> IF op.first
                  THEN [k |-> op.k, in |-> st.in, lab |-> lab, loss0 |-> st.loss[0],
                        fin |-> op.last, written |-> wr]
                  ELSE [st.snap EXCEPT !.fin = op.last, !.written = wr]]

RECURSIVE ApplyOps(_, _, _)
\* cudaDeviceSynchronize(): the operations ops run to completion, in order
ApplyOps(st, ops, g) ==
  IF ops = <<>> THEN st
  ELSE ApplyOps(ApplyOp(st, Head(ops), IF PastEnd(Head(ops)) > 0 THEN g ELSE <<>>), Tail(ops), g)

-----------------------------------------------------------------------------
(* fused_loss_computation *)

\* The body the three engines share.  v is the outcome of the engine's checks
\* ("ok" where it has none), ops the operations it enqueues, cfg the <<<grid,
\* block>>> of its launch.  A throw leaves the function at once; the build
\* without NDEBUG synchronizes the device and reads the launch's error.
FusedLoss(v, ops, cfg) ==
  /\ call.n < MaxCalls
  /\ LET there == get_set_device(engine.device_id, curDevice)
         back  == get_set_device(there.o_device, there.cur)
         fails == LaunchFails(cfg.grid, cfg.block)
     IN  IF v # "ok"
           THEN /\ curDevice' = there.cur
                /\ call' = [call EXCEPT !.n = @ + 1, !.rets = Append(@, "WrongInput"),
                                        !.entry = curDevice]
                /\ UNCHANGED <<inT, labT, lossT, stream, snap>>
         ELSE IF debug
           THEN \E g \in Garbage(LabelReads - NumElems(labT)) :
                  LET st == ApplyOps([in |-> inT.data, lab |-> labT.data, loss |-> lossT.data,
                                      snap |-> snap], stream \o ops, g)
                  IN  /\ inT' = [inT EXCEPT !.data = st.in]
                      /\ labT' = [labT EXCEPT !.data = st.lab]
                      /\ lossT' = [lossT EXCEPT !.data = st.loss]
                      /\ snap' = st.snap
                      /\ stream' = <<>>
                      /\ curDevice' = IF fails THEN there.cur ELSE back.cur
                      /\ call' = [call EXCEPT !.n = @ + 1,
                                              !.rets = Append(@, IF fails THEN "CudaError" ELSE "ok"),
                                              !.entry = curDevice,
                                              !.nLaunch = @ + 1, !.launch = cfg]
         ELSE /\ stream' = stream \o ops
              /\ curDevice' = back.cur
              /\ call' = [call EXCEPT !.n = @ + 1, !.rets = Append(@, "ok"),
                                      !.entry = curDevice,
                                      !.nLaunch = @ + 1, !.launch = cfg]
              /\ UNCHANGED <<inT, labT, lossT, snap>>
  /\ UNCHANGED <<scaler, debug, engine, ctor, threads>>

CE_fused_loss_computation ==
  /\ engine.kind = "CE"
  /\ FusedLoss(CE_Validate(inT, labT), CE_Ops(call.n + 1),
               [grid |-> 1, block |-> block_size(batch_size(inT))])

BCE_fused_loss_computation ==
  /\ engine.kind = "BCE"
  /\ FusedLoss(BCE_Validate(inT, labT), CE_Ops(call.n + 1),
               [grid |-> 1, block |-> block_size(batch_size(inT))])

MCE_fused_loss_computation ==
  /\ engine.kind = "MCE"
  /\ FusedLoss("ok", MCE_Ops(call.n + 1),
               [grid |-> GRID_SIZE(inT.dims[1], inT.dims[2]), block |-> BLOCK_SIZE])

\* the device runs the operation at the head of the stream
StreamRun ==
  /\ stream # <<>>
  /\ \E g \in Garbage(PastEnd(Head(stream))) :
       LET st == ApplyOp([in |-> inT.data, lab |-> labT.data, loss |-> lossT.data,
                          snap |-> snap], Head(stream), g)
       IN  /\ inT' = [inT EXCEPT !.data = st.in]
           /\ labT' = [labT EXCEPT !.data = st.lab]
           /\ lossT' = [lossT EXCEPT !.data = st.loss]
           /\ snap' = st.snap
  /\ stream' = Tail(stream)
  /\ UNCHANGED <<scaler, debug, curDevice, engine, ctor, call, threads>>

-----------------------------------------------------------------------------
(* The specification *)

Init ==
  /\ scaler \in Scalers
  /\ debug \in BOOLEAN
  /\ \E s \in Shapes, ip \in InPats, lp \in LabPats :
       /\ inT = Tensor(s.in, s.infmt, ip)
       /\ labT = Tensor(s.lab, s.labfmt, lp)
  /\ lossT = Tensor(<<1, 1>>, "HW", <<LossInit>>)
  /\ curDevice = 0
  /\ engine = NoEngine
  /\ ctor = [n |-> 0, ret |-> "none", args |-> <<>>, nAlloc |-> 0, nMemcpy |-> 0, nSetDevice |-> 0]
  /\ call = [n |-> 0, rets |-> <<>>, entry |-> 0, nLaunch |-> 0,
             launch |-> [grid |-> 0, block |-> 0]]
  /\ stream = <<>>
  /\ snap = [k |-> 0, in |-> <<>>, lab |-> <<>>, loss0 |-> 0, fin |-> FALSE, written |-> {}]
  /\ threads = NoKernel

Next ==
  \/ \E kind \in {"CE", "BCE"}, d \in Devices : Construct(kind, d)
  \/ \E w \in Weights, d \in Devices : ConstructMCE(w, d)
  \/ CE_fused_loss_computation
  \/ BCE_fused_loss_computation
  \/ MCE_fused_loss_computation
  \/ StreamRun

Spec == Init /\ [][Next]_vars

-----------------------------------------------------------------------------
(* The launch configuration of MultiCrossEntropyLoss on its own: the pure     *)
(* function GRID_SIZE over a range of tensor shapes, the buffers left out.    *)

MaxLabels == 4

GridBatches ==
  {1, 2, 64, 85, 86, 128, 129, 256, 257, 512, 513, 1000, 2560, 3413, 3414,
   5120, 5121, 10240, 10241, 20000}

InitGrid ==
  /\ scaler = 1
  /\ debug = FALSE
  /\ \E b \in GridBatches, l \in 1..MaxLabels :
       /\ inT = [dims |-> <<b, l>>, fmt |-> "HW", data |-> <<>>]
       /\ labT = [dims |-> <<b, l>>, fmt |-> "HW", data |-> <<>>]
  /\ lossT = Tensor(<<1, 1>>, "HW", <<LossInit>>)
  /\ curDevice = 0
  /\ engine = [kind |-> "MCE", device_id |-> 0, weight |-> <<>>]
  /\ ctor = [n |-> 1, ret |-> "ok", args |-> <<>>, nAlloc |-> 1, nMemcpy |-> 1, nSetDevice |-> 2]
  /\ call = [n |-> 0, rets |-> <<>>, entry |-> 0, nLaunch |-> 0,
             launch |-> [grid |-> 0, block |-> 0]]
  /\ stream = <<>>
  /\ snap = [k |-> 0, in |-> <<>>, lab |-> <<>>, loss0 |-> 0, fin |-> FALSE, written |-> {}]
  /\ threads = NoKernel

\* lines 274-277 and 293 of the call: the <<<GRID_SIZE, BLOCK_SIZE>>> it launches with
GridSizing ==
  /\ call.n = 0
  /\ call' = [call EXCEPT !.n = 1, !.nLaunch = 1,
                          !.launch = [grid |-> GRID_SIZE(inT.dims[1], inT.dims[2]),
                                      block |-> BLOCK_SIZE]]
  /\ UNCHANGED <<scaler, debug, inT, labT, lossT, curDevice, engine, ctor, stream, snap, threads>>

SpecGrid == InitGrid /\ [][GridSizing]_vars

-----------------------------------------------------------------------------
(* One kernel launch, thread by thread.  The launch <<<gridDim, blockDim>>>   *)
(* runs gridDim * blockDim threads; thread k is thread k % blockDim of block  *)
(* k \div blockDim.  A step of a thread is one access to the memory the       *)
(* threads share (the input buffer, the label buffer, loss_s of the block,    *)
(* the loss word) with the register work that follows it.  The threads'       *)
(* steps interleave freely.                                                   *)

\* the largest batch followed thread by thread
MaxSamples == 4

\* the launches followed thread by thread
Launches ==
  { [grid |-> 1, block |-> 1], [grid |-> 1, block |-> 2], [grid |-> 1, block |-> 3],
    [grid |-> 2, block |-> 1], [grid |-> 2, block |-> 2] }

\* what the block's shared memory may hold when the kernel starts
ShmVals == {0, LossInit}

\* the (input, label) tensors of a launch of each kernel
KernelShapes(kind) ==
  IF kind = "CE"
    THEN { [in |-> <<b, 2>>, lab |-> <<b, 1>>, fmt |-> "HW"] : b \in 1..MaxSamples }
         \cup { [in |-> <<2, b>>, lab |-> <<1, b>>, fmt |-> "WH"] : b \in 1..MaxSamples }
  ELSE IF kind = "BCE"
    THEN { [in |-> <<b, 1>>, lab |-> <<b, 1>>, fmt |-> "HW"] : b \in 1..MaxSamples }
         \cup { [in |-> <<1, b>>, lab |-> <<1, b>>, fmt |-> "WH"] : b \in 1..MaxSamples }
  ELSE { [in |-> <<b, l>>, lab |-> <<b, l>>, fmt |-> "HW"] : b \in 1..(MaxSamples - 2), l \in 2..3 }

\* int tid = threadIdx.x + blockDim.x * blockIdx.x
GlobalTid(threadIdx, blockIdx, blockDim) == threadIdx + blockDim * blockIdx

\* the threads of the launch
Tids == 0..(threads.gridDim * threads.blockDim - 1)

\* the loop bound of the kernel: batch_size, or size for MultiCrossEntropy_Kernel
LoopBound == IF engine.kind = "MCE" THEN inT.dims[1] * inT.dims[2] ELSE batch_size(inT)

\* the stride of the loop with i += one
Stride_One(gridDim, blockDim) == 1

\* i += blockDim.x (one block) and i += num_threads = blockDim.x * gridDim.x
Stride(gridDim, blockDim) == blockDim * gridDim

\* the input indices of sample i
SampleIdx(i) ==
  IF engine.kind = "CE"
    THEN { CE_id1(i, batch_size(inT), feature_dim(inT), row_major(inT)),
           CE_id2(i, batch_size(inT), feature_dim(inT), row_major(inT)) }
    ELSE {i}

\* thread t reads input[j] into register r ("r0" or "r1")
ReadInput(t, j, r) ==
  [threads EXCEPT ![r][t] = inT.data[j],
                  !.rd[j] = @ \cup {t},
                  !.got[t] = @ \cup {j},
                  !.stale = @ \/ threads.wr[j] # {}]

\* thread t stores to input[j] in the iteration of sample i
WriteLog(th, t, j, i) ==
  [th EXCEPT !.wr[j] = @ \cup {t},
             !.early = @ \/ ~(SampleIdx(i) \subseteq threads.got[t])]

\* the end of thread t's iteration on sample i: loss_s += term, i += stride
EndIter(th, t, i, term) ==
  LET nxt == i + Stride(threads.gridDim, threads.blockDim)
  IN  [th EXCEPT !.loss_s[t] = @ + term,
                 !.i[t] = nxt,
                 !.got[t] = {},
                 !.proc[i] = Append(@, t),
                 !.pc[t] = IF nxt < LoopBound THEN "read" ELSE "after"]

\* the input buffer as thread t has it in its registers
RegView(t, id1, id2) ==
  [j \in DOMAIN inT.data |->
     IF j = id1 THEN threads.r0[t] ELSE IF j = id2 THEN threads.r1[t] ELSE inT.data[j]]

KFrame == UNCHANGED <<scaler, debug, labT, curDevice, engine, ctor, call, stream, snap>>

\* loss_s[tid] = 0.0f; for (int i = tid; i < batch_size; ...)   (lines 38-43, 143-148)
Block_init(t) ==
  /\ engine.kind \in {"CE", "BCE"}
  /\ threads.pc[t] = "init"
  /\ threads' = [threads EXCEPT !.loss_s[t] = 0,
                                !.i[t] = t,
                                !.pc[t] = IF t < LoopBound THEN "read" ELSE "after"]
  /\ UNCHANGED <<inT, lossT>>
  /\ KFrame

\* z0_exp = exp((double)input[id1])
CE_read1(t) ==
  /\ engine.kind = "CE"
  /\ threads.pc[t] = "read"
  /\ LET id1 == CE_id1(threads.i[t], batch_size(inT), feature_dim(inT), row_major(inT))
     IN  threads' = [ReadInput(t, id1, "r0") EXCEPT !.pc[t] = "read2"]
  /\ UNCHANGED <<inT, lossT>>
  /\ KFrame

\* z1_exp = exp((double)input[id2]); a0, a1; no_click = label[i] < 0.5f
CE_read2(t) ==
  /\ engine.kind = "CE"
  /\ threads.pc[t] = "read2"
  /\ LET id2 == CE_id2(threads.i[t], batch_size(inT), feature_dim(inT), row_major(inT))
     IN  threads' = [ReadInput(t, id2, "r1") EXCEPT !.pc[t] = "write"]
  /\ UNCHANGED <<inT, lossT>>
  /\ KFrame

\* input[id1] = (a0 - (no_click ? 1.0f : 0.0f)) / batch_size * scaler
CE_write1(t) ==
  /\ engine.kind = "CE"
  /\ threads.pc[t] = "write"
  /\ LET i   == threads.i[t]
         id1 == CE_id1(i, batch_size(inT), feature_dim(inT), row_major(inT))
         id2 == CE_id2(i, batch_size(inT), feature_dim(inT), row_major(inT))
         v   == CE_grad(RegView(t, id1, id2), labT.data, i, 0, batch_size(inT),
                        feature_dim(inT), row_major(inT), scaler)
     IN  /\ inT' = [inT EXCEPT !.data[id1] = v]
         /\ threads' = [WriteLog(threads, t, id1, i) EXCEPT !.pc[t] = "write2"]
  /\ UNCHANGED lossT
  /\ KFrame

\* input[id2] = (a1 - (!no_click ? 1.0f : 0.0f)) / batch_size * scaler;
\* loss_s[tid] += -1 * log(no_click ? a0 : a1); i += blockDim.x
CE_write2(t) ==
  /\ engine.kind = "CE"
  /\ threads.pc[t] = "write2"
  /\ LET i    == threads.i[t]
         id1  == CE_id1(i, batch_size(inT), feature_dim(inT), row_major(inT))
         id2  == CE_id2(i, batch_size(inT), feature_dim(inT), row_major(inT))
         view == RegView(t, id1, id2)
         v    == CE_grad(view, labT.data, i, 1, batch_size(inT), feature_dim(inT),
                         row_major(inT), scaler)
         term == CE_term(view, labT.data, i, batch_size(inT), feature_dim(inT), row_major(inT))
     IN  /\ inT' = [inT EXCEPT !.data[id2] = v]
         /\ threads' = EndIter(WriteLog(threads, t, id2, i), t, i, term)
  /\ UNCHANGED lossT
  /\ KFrame

\* x = input[i] < MIN_X ? MIN_X : input[i]; exp_neg_x; val; y = label[i]
BCE_read(t) ==
  /\ engine.kind = "BCE"
  /\ threads.pc[t] = "read"
  /\ threads' = [ReadInput(t, threads.i[t], "r0") EXCEPT !.pc[t] = "write"]
  /\ UNCHANGED <<inT, lossT>>
  /\ KFrame

\* loss_s[tid] += y * log(val + MIN_) + ...; input[i] = ... / batch_size * scaler;
\* i += blockDim.x
BCE_write(t) ==
  /\ engine.kind = "BCE"
  /\ threads.pc[t] = "write"
  /\ LET i    == threads.i[t]
         view == RegView(t, i, i)
     IN  /\ inT' = [inT EXCEPT !.data[i] = BCE_grad(view, labT.data, i, batch_size(inT), scaler)]
         /\ threads' = EndIter(WriteLog(threads, t, i, i), t, i, BCE_term(view, labT.data, i))
  /\ UNCHANGED lossT
  /\ KFrame

\* a barrier that lets every thread through at once
syncthreads_NoWait(pc) == TRUE

\* __syncthreads(): open once every thread of the block has arrived
syncthreads(pc) == \A u \in DOMAIN pc : pc[u] \in {"after", "sum", "done"}

\* __syncthreads(); float loss_tmp = 0.0f; if (tid == 0) ...
Block_barrier(t) ==
  /\ engine.kind \in {"CE", "BCE"}
  /\ threads.pc[t] = "after"
  /\ syncthreads(threads.pc)
  /\ threads' = [threads EXCEPT !.pc[t] = IF t = 0 THEN "sum" ELSE "done"]
  /\ UNCHANGED <<inT, lossT>>
  /\ KFrame

\* for (i = 0; i < blockDim.x; ++i) loss_tmp += loss_s[i];
\* cel_loss[0] = loss_tmp / batch_size;  bce_loss[0] = -loss_tmp / batch_size
Block_sum ==
  /\ engine.kind \in {"CE", "BCE"}
  /\ threads.pc[0] = "sum"
  /\ LET loss_tmp == SumTo(threads.loss_s, threads.blockDim)
     IN  lossT' = [lossT EXCEPT !.data[0] =
                     IF engine.kind = "CE" THEN Div(loss_tmp, batch_size(inT))
                     ELSE Div(0 - loss_tmp, batch_size(inT))]
  /\ threads' = [threads EXCEPT !.pc[0] = "done",
                                !.sumSaw = [u \in DOMAIN threads.pc |-> threads.pc[u]]]
  /\ UNCHANGED inT
  /\ KFrame

\* int tid = ...; float loss_s = 0.f; for (int i = tid; i < size; ...)  (lines 242-246)
MCE_start(t) ==
  /\ engine.kind = "MCE"
  /\ threads.pc[t] = "init"
  /\ LET tid == GlobalTid(t % threads.blockDim, t \div threads.blockDim, threads.blockDim)
     IN  threads' = [threads EXCEPT !.loss_s[t] = 0,
                                    !.i[t] = tid,
                                    !.pc[t] = IF tid < LoopBound THEN "read" ELSE "after"]
  /\ UNCHANGED <<inT, lossT>>
  /\ KFrame

\* const float x = input[i]; const float y = label[i]
MCE_read(t) ==
  /\ engine.kind = "MCE"
  /\ threads.pc[t] = "read"
  /\ threads' = [ReadInput(t, threads.i[t], "r0") EXCEPT !.pc[t] = "write"]
  /\ UNCHANGED <<inT, lossT>>
  /\ KFrame

\* loss_s += loss; input[i] = ...; i += num_threads
MCE_write(t) ==
  /\ engine.kind = "MCE"
  /\ threads.pc[t] = "write"
  /\ LET i    == threads.i[t]
         view == RegView(t, i, i)
         size == inT.dims[1] * inT.dims[2]
     IN  /\ inT' = [inT EXCEPT !.data[i] =
                      MCE_grad(view, labT.data, engine.weight, i, size, inT.dims[2], scaler)]
         /\ threads' = EndIter(WriteLog(threads, t, i, i), t, i,
                               MCE_loss(view, labT.data, engine.weight, i, inT.dims[2]))
  /\ UNCHANGED lossT
  /\ KFrame

\* the add made by thread 0 of each block alone
MCE_atomic_Thread0(t) ==
  /\ engine.kind = "MCE"
  /\ threads.pc[t] = "after"
  /\ lossT' = [lossT EXCEPT !.data[0] =
                 IF t % threads.blockDim = 0
                   THEN atomic_global_sum_div(0 - threads.loss_s[t], @, inT.dims[1] * inT.dims[2])
                   ELSE @]
  /\ threads' = [threads EXCEPT !.pc[t] = "done", !.adds[t] = @ + 1]
  /\ UNCHANGED inT
  /\ KFrame

\* atomic_global_sum_div(-loss_s, bce_loss, size); return
MCE_atomic(t) ==
  /\ engine.kind = "MCE"
  /\ threads.pc[t] = "after"
  /\ lossT' = [lossT EXCEPT !.data[0] =
                 atomic_global_sum_div(0 - threads.loss_s[t], @, inT.dims[1] * inT.dims[2])]
  /\ threads' = [threads EXCEPT !.pc[t] = "done", !.adds[t] = @ + 1]
  /\ UNCHANGED inT
  /\ KFrame

\* the state when the kernel starts: the call has validated its tensors and
\* MultiCrossEntropyLoss's memset of the loss buffer has run
InitKernel ==
  /\ scaler \in {1, 128}
  /\ debug = FALSE
  /\ curDevice = 0
  /\ stream = <<>>
  /\ \E kind \in {"CE", "BCE", "MCE"}, ip \in InPats, lp \in LabPats, cfg \in Launches,
        shm \in ShmVals :
       \E s \in KernelShapes(kind) :
         /\ kind \in {"CE", "BCE"} => cfg.grid = 1
         /\ kind = "MCE" => shm = 0
         /\ inT = Tensor(s.in, s.fmt, ip)
         /\ labT = Tensor(s.lab, s.fmt, lp)
         /\ lossT = Tensor(<<1, 1>>, "HW", <<IF kind = "MCE" THEN 0 ELSE LossInit>>)
         /\ engine = [kind |-> kind, device_id |-> 0,
                      weight |-> IF kind = "MCE"
                                   THEN Fill(s.in[2], <<ONE, 2 * ONE, 3 * ONE>>)
                                   ELSE <<>>]
         /\ ctor = [n |-> 1, ret |-> "ok", args |-> <<>>, nAlloc |-> 0, nMemcpy |-> 0,
                    nSetDevice |-> 0]
         /\ call = [n |-> 1, rets |-> <<"ok">>, entry |-> 0, nLaunch |-> 1, launch |-> cfg]
         /\ snap = [k |-> 1, in |-> Tensor(s.in, s.fmt, ip).data,
                    lab |-> Tensor(s.lab, s.fmt, lp).data,
                    loss0 |-> IF kind = "MCE" THEN 0 ELSE LossInit, fin |-> FALSE, written |-> {}]
         /\ threads =
              LET T == 0..(cfg.grid * cfg.block - 1)
                  n == Prod(s.in)
              IN  [on |-> TRUE, gridDim |-> cfg.grid, blockDim |-> cfg.block,
                   pc |-> [t \in T |-> "init"],
                   i |-> [t \in T |-> 0],
                   r0 |-> [t \in T |-> 0],
                   r1 |-> [t \in T |-> 0],
                   loss_s |-> [t \in T |-> shm],
                   got |-> [t \in T |-> {}],
                   adds |-> [t \in T |-> 0],
                   rd |-> [j \in 0..(n - 1) |-> {}],
                   wr |-> [j \in 0..(n - 1) |-> {}],
                   proc |-> [j \in 0..(n - 1) |-> <<>>],
                   stale |-> FALSE,
                   early |-> FALSE,
                   sumSaw |-> <<>>]

NextKernel ==
  \/ \E t \in Tids : Block_init(t)
  \/ \E t \in Tids : CE_read1(t)
  \/ \E t \in Tids : CE_read2(t)
  \/ \E t \in Tids : CE_write1(t)
  \/ \E t \in Tids : CE_write2(t)
  \/ \E t \in Tids : BCE_read(t)
  \/ \E t \in Tids : BCE_write(t)
  \/ \E t \in Tids : Block_barrier(t)
  \/ Block_sum
  \/ \E t \in Tids : MCE_start(t)
  \/ \E t \in Tids : MCE_read(t)
  \/ \E t \in Tids : MCE_write(t)
  \/ \E t \in Tids : MCE_atomic(t)

SpecKernel == InitKernel /\ [][NextKernel]_vars

-----------------------------------------------------------------------------
(* Claims *)

\* the outcome of call number k
Ret(k) == call.rets[k]

\* a step that is a call of fused_loss_computation
IsCall == call'.n = call.n + 1

\* a step that is a construction of a MultiCrossEntropyLoss
IsCtorMCE == ctor'.n = ctor.n + 1 /\ ctor'.args[1] = "MCE"

\* the call whose device work the snapshot describes has returned normally and
\* its device work is finished
CallDone == snap.k >= 1 /\ snap.fin /\ Ret(snap.k) = "ok"

\* the <<<grid, block>>> of the engine's launch
EngineLaunch ==
  IF engine.kind = "MCE"
    THEN [grid |-> GRID_SIZE(inT.dims[1], inT.dims[2]), block |-> BLOCK_SIZE]
    ELSE [grid |-> 1, block |-> block_size(batch_size(inT))]

\* what one call leaves in the input buffer and in the loss word when it starts
\* from the buffers in, lab, and a loss word holding loss0, under scaler S
CallLeaves(in, lab, loss0, S) ==
  LET cfg == EngineLaunch
      l0  == IF engine.kind = "MCE" THEN 0 ELSE loss0
  IN  IF LaunchFails(cfg.grid, cfg.block)
        THEN [data |-> in, loss |-> l0]
        ELSE LET r == KernelRun(in, lab, [i \in {0} |-> l0], S, cfg.grid, cfg.block)
             IN  [data |-> r.data, loss |-> r.loss]

\* C1: when a call of fused_loss_computation has returned, on whatever path,
\* the current device is the one that was current when the call was entered.
C1_DeviceRestored == call.n >= 1 => curDevice = call.entry

\* C2: when a call has returned normally and its device work is done, every
\* element of the input buffer has been overwritten by that call and the loss
\* word holds what the call computes from the input and label it started
\* from, starting from zero: nothing of the loss word's earlier value.
C2_FullOverwrite ==
  CallDone =>
    /\ snap.written = DOMAIN inT.data
    /\ lossT.data[0] = CallLeaves(snap.in, snap.lab, 0, scaler).loss

\* the loss of the unmasked elements alone, summed by one block of threads
C3_UnmaskedLoss ==
  LET size  == inT.dims[1] * inT.dims[2]
      elems == [i \in 0..(size - 1) |->
                  IF snap.lab[i] < 0 - HALF THEN 0
                  ELSE Mul(engine.weight[i % inT.dims[2]],
                           cross_entropy_loss(snap.in[i], snap.lab[i]))]
      per   == [t \in 0..(BLOCK_SIZE - 1) |->
                  Div(0 - StrideSum(elems, t, size, BLOCK_SIZE), size)]
  IN  SumTo(per, BLOCK_SIZE)

\* C3: after a MultiCrossEntropyLoss call, every element whose label is below
\* -0.5 holds exactly 0 in the input buffer, and the loss is the sum over the
\* unmasked elements only.
C3_Masking ==
  (engine.kind = "MCE" /\ CallDone) =>
    /\ \A i \in DOMAIN snap.lab : snap.lab[i] < 0 - HALF => inT.data[i] = 0
    /\ lossT.data[0] = C3_UnmaskedLoss

\* the batch-dimension size of the label tensor
LabelBatch == IF row_major(labT) THEN labT.dims[1] ELSE labT.dims[2]

\* C4: a CrossEntropyLoss call whose layouts differ, or whose feature dimension
\* is not 2, or whose batch sizes differ, raises WrongInput, launches nothing
\* and leaves the input, label and loss tensors as they were.
C4_CERejects ==
  [][ ( /\ engine.kind = "CE"
        /\ IsCall
        /\ \/ inT.fmt # labT.fmt
           \/ feature_dim(inT) # 2
           \/ batch_size(inT) # LabelBatch )
      => ( /\ call'.rets[call'.n] = "WrongInput"
           /\ call'.nLaunch = call.nLaunch
           /\ stream' = stream
           /\ inT' = inT /\ labT' = labT /\ lossT' = lossT ) ]_vars

C4_Witness ==
  /\ engine.kind = "CE" /\ call.n >= 1 /\ Ret(call.n) = "WrongInput"
  /\ inT.fmt = labT.fmt /\ feature_dim(inT) = 2 /\ batch_size(inT) # LabelBatch
  /\ ~row_major(inT)

\* the number of calls so far that were not rejected
NotRejected == Cardinality({k \in 1..call.n : Ret(k) # "WrongInput"})

\* C5 (as the code has it): a BinaryCrossEntropyLoss call is rejected with
\* WrongInput exactly when the feature dimension is not 1 or the layout tags of
\* input and label differ; every call that is not rejected launches the kernel.
C5_BCERejects ==
  engine.kind = "BCE" =>
    /\ \A k \in 1..call.n :
         Ret(k) = "WrongInput" <=> (feature_dim(inT) # 1 \/ inT.fmt # labT.fmt)
    /\ call.nLaunch = NotRejected

\* C5 (as claimed): rejected when the feature dimension is not 1; with feature
\* dimension 1 and differing layout tags, not rejected, and the kernel launched.
C5_NoLayoutCheck ==
  engine.kind = "BCE" =>
    \A k \in 1..call.n :
      /\ feature_dim(inT) # 1 => Ret(k) = "WrongInput"
      /\ (feature_dim(inT) = 1 /\ inT.fmt # labT.fmt) =>
           (Ret(k) # "WrongInput" /\ call.nLaunch >= 1)

C5_Witness ==
  /\ engine.kind = "BCE" /\ call.n >= 1 /\ Ret(call.n) = "WrongInput"
  /\ feature_dim(inT) = 1 /\ inT.fmt # labT.fmt

\* the weight vector handed to the last construction of a MultiCrossEntropyLoss
CtorWeight == ctor.args[3]

\* the last construction was one of a MultiCrossEntropyLoss
LastCtorMCE == ctor.n >= 1 /\ ctor.args[1] = "MCE"

\* label and input are both 2-dimensional and of the same size on both dimensions
SameShape2D ==
  /\ Len(labT.dims) = 2 /\ Len(inT.dims) = 2
  /\ labT.dims[1] = inT.dims[1] /\ labT.dims[2] = inT.dims[2]

\* C6 (as the code has it): constructing a MultiCrossEntropyLoss raises
\* WrongInput exactly when not all of these hold: label and input are
\* 2-dimensional, both are row-major (HW), their sizes agree on both
\* dimensions, and the weight vector is as long as the label-column count.
C6_CtorRejects ==
  LastCtorMCE =>
    ( ctor.ret = "WrongInput" <=>
        ~( /\ SameShape2D
           /\ labT.fmt = "HW" /\ inT.fmt = "HW"
           /\ Len(CtorWeight) = labT.dims[2] ) )

\* C6 (as claimed): ... their layout tags match each other ...
C6_AnyMatchingLayout ==
  LastCtorMCE =>
    ( ctor.ret = "WrongInput" <=>
        ~( /\ SameShape2D
           /\ labT.fmt = inT.fmt
           /\ Len(CtorWeight) = labT.dims[2] ) )

C6_Witness ==
  /\ LastCtorMCE /\ ctor.ret = "WrongInput"
  /\ SameShape2D /\ labT.fmt = "WH" /\ inT.fmt = "WH"
  /\ Len(CtorWeight) = labT.dims[2]

\* the construction validates badly: mismatched shapes or a wrong weight length
C7_Invalid(w) ==
  \/ ~SameShape2D
  \/ Len(w) # labT.dims[2]

\* C7: a construction that fails validation raises WrongInput with no weight
\* buffer allocated, no device switch, no device copy, no engine and the
\* input tensor as it was; a further attempt with the same arguments fails too.
C7_CtorFailsEarly ==
  [][ (IsCtorMCE /\ C7_Invalid(ctor'.args[3]))
      => ( /\ ctor'.ret = "WrongInput"
           /\ ctor'.nAlloc = ctor.nAlloc
           /\ ctor'.nMemcpy = ctor.nMemcpy
           /\ ctor'.nSetDevice = ctor.nSetDevice
           /\ curDevice' = curDevice
           /\ engine' = engine
           /\ inT' = inT
           /\ (ctor.n >= 1 /\ ctor.args = ctor'.args => ctor.ret = ctor'.ret) ) ]_vars

C7_Witness ==
  /\ ctor.n >= 2 /\ LastCtorMCE /\ ctor.ret = "WrongInput"
  /\ SameShape2D /\ labT.fmt = "HW" /\ inT.fmt = "HW"
  /\ Len(CtorWeight) # labT.dims[2]
  /\ ctor.nAlloc = 0 /\ ctor.nSetDevice = 0

\* C8: a call, and the device work it enqueues, leave the label tensor, the
\* shapes and the engine with its weight vector as they were, and change at
\* most the input buffer and element 0 of the loss buffer; the weight vector
\* of a MultiCrossEntropyLoss is the one handed to its constructor.
C8_Frame ==
  [][ ( (call'.n # call.n \/ stream' # stream)
        => ( /\ labT' = labT
             /\ engine' = engine
             /\ inT'.dims = inT.dims /\ inT'.fmt = inT.fmt
             /\ DOMAIN inT'.data = DOMAIN inT.data
             /\ lossT'.dims = lossT.dims
             /\ \A i \in DOMAIN lossT.data : i # 0 => lossT'.data[i] = lossT.data[i] ) )
      /\ ( engine'.kind = "MCE"
           => engine'.weight = [i \in 0..(Len(ctor'.args[3]) - 1) |-> ctor'.args[3][i + 1]] ) ]_vars

C8_Witness ==
  /\ engine.kind = "MCE" /\ call.n >= 2 /\ CallDone /\ snap.k = call.n
  /\ snap.written # {} /\ inT.data # snap.in /\ lossT.data[0] # snap.loss0

\* C9: the input buffer a call leaves under scaler S is, element by element, S
\* times the buffer the same call leaves under scaler 1, and the loss word is
\* the one it leaves under scaler 1.
C9_Scaling ==
  CallDone =>
    LET one == CallLeaves(snap.in, snap.lab, snap.loss0, 1)
    IN  /\ \A i \in DOMAIN inT.data : inT.data[i] = scaler * one.data[i]
        /\ lossT.data[0] = one.loss

\* blocks needed to give every element a thread: ceil(n / BLOCK_SIZE)
CeilBlocks(n) == (n + BLOCK_SIZE - 1) \div BLOCK_SIZE

\* C10: a MultiCrossEntropyLoss call on at least one element launches with 256
\* threads per block and with at most 40 and at most ceil(totalElements / 256)
\* blocks.
C10_GridCap ==
  (engine.kind = "MCE" /\ call.nLaunch >= 1 /\ inT.dims[1] * inT.dims[2] >= 1) =>
    /\ call.launch.block = 256
    /\ call.launch.grid <= 40
    /\ call.launch.grid <= CeilBlocks(inT.dims[1] * inT.dims[2])

C10_Witness ==
  /\ engine.kind = "MCE" /\ call.nLaunch >= 1
  /\ call.launch.grid = 40 /\ CeilBlocks(inT.dims[1] * inT.dims[2]) > 40

\* C11: a MultiCrossEntropyLoss call on at least one element launches with at
\* least one block, and when its device work is done every element index below
\* batchSize * labelsPerSample has been stored to: a masked element holds 0, an
\* unmasked one its gradient.
C11_Coverage ==
  (engine.kind = "MCE" /\ call.nLaunch >= 1 /\ inT.dims[1] * inT.dims[2] >= 1) =>
    /\ call.launch.grid >= 1
    /\ CallDone =>
         LET size == inT.dims[1] * inT.dims[2]
         IN  /\ snap.written = 0..(size - 1)
             /\ \A i \in 0..(size - 1) :
                  inT.data[i] = IF snap.lab[i] < 0 - HALF THEN 0
                                ELSE Div(Mul(engine.weight[i % inT.dims[2]],
                                             cross_entropy_loss_backward(snap.in[i], snap.lab[i])),
                                         size) * scaler

\* every thread of the launch has returned
AllDone == threads.on /\ \A t \in Tids : threads.pc[t] = "done"

\* the elements thread t of the launch is to handle: t, t + n, t + 2n, ... for
\* the n threads of the launch
OwnElems(t) ==
  { i \in 0..(LoopBound - 1) : i % (threads.gridDim * threads.blockDim) = t }

\* the weighted loss of element i of the tensors the launch started from
ElemLoss(i) ==
  IF snap.lab[i] < 0 - HALF THEN 0
  ELSE Mul(engine.weight[i % inT.dims[2]], cross_entropy_loss(snap.in[i], snap.lab[i]))

\* the sum of the weighted losses of the elements of thread t
LocalLoss(t) ==
  SumTo([i \in 0..(LoopBound - 1) |-> IF i \in OwnElems(t) THEN ElemLoss(i) ELSE 0], LoopBound)

\* C12: in a launch of MultiCrossEntropy_Kernel, under every interleaving of
\* its threads, each thread adds to the loss word exactly once, when it
\* returns; the loss word is at every moment the zero it started from plus,
\* for every thread that has returned, that thread's negated local sum divided
\* by the element count; and when all have returned the local sums are those
\* of the elements tid, tid + num_threads, ...
C12_AtomicSum ==
  (threads.on /\ engine.kind = "MCE") =>
    LET size == inT.dims[1] * inT.dims[2]
        n    == threads.gridDim * threads.blockDim
    IN  /\ \A t \in Tids : threads.adds[t] = (IF threads.pc[t] = "done" THEN 1 ELSE 0)
        /\ lossT.data[0] =
             SumTo([t \in Tids |-> IF threads.pc[t] = "done"
                                     THEN Div(0 - threads.loss_s[t], size) ELSE 0], n)
        /\ AllDone =>
             lossT.data[0] = SumTo([t \in Tids |-> Div(0 - LocalLoss(t), size)], n)

C12_Witness ==
  /\ engine.kind = "MCE" /\ AllDone
  /\ threads.gridDim = 2 /\ threads.blockDim = 2
  /\ Cardinality({t \in Tids : threads.loss_s[t] # 0}) >= 3
  /\ lossT.data[0] > 0

\* the loss term of sample i of the tensors the launch started from
SampleTerm(i) ==
  IF engine.kind = "CE"
    THEN CE_term(snap.in, snap.lab, i, batch_size(inT), feature_dim(inT), row_major(inT))
    ELSE BCE_term(snap.in, snap.lab, i)

\* the mean of the sample terms, negated for the sigmoid engine
MeanLoss ==
  LET total == SumTo([i \in 0..(batch_size(inT) - 1) |-> SampleTerm(i)], batch_size(inT))
  IN  IF engine.kind = "CE" THEN Div(total, batch_size(inT))
      ELSE Div(0 - total, batch_size(inT))

\* C13: in a launch of CrossEntropy_Kernel or BinaryCrossEntropy_Kernel, also
\* with more samples than threads, a sample i is processed at most once, and
\* then by the thread i mod blockDim; thread 0 sums the slots of loss_s only
\* when every thread has set its slot to zero and processed all of its
\* samples t, t + blockDim, ...; and the loss word thread 0 writes is the sum
\* of the terms of all samples divided by the batch size (negated for the
\* sigmoid engine).
C13_BlockReduce ==
  (threads.on /\ engine.kind \in {"CE", "BCE"}) =>
    /\ \A i \in 0..(batch_size(inT) - 1) :
         /\ Len(threads.proc[i]) <= 1
         /\ Len(threads.proc[i]) = 1 => threads.proc[i][1] = i % threads.blockDim
    /\ threads.pc[0] \in {"sum", "done"} =>
         /\ \A t \in Tids : threads.pc[t] \in {"after", "sum", "done"}
         /\ \A i \in 0..(batch_size(inT) - 1) : Len(threads.proc[i]) = 1
    /\ threads.pc[0] = "done" =>
         /\ \A t \in Tids : threads.sumSaw[t] \in {"after", "sum", "done"}
         /\ lossT.data[0] = MeanLoss

C13_Witness ==
  /\ engine.kind = "CE" /\ AllDone
  /\ threads.blockDim = 3 /\ batch_size(inT) = 4
  /\ threads.proc[0] = <<0>> /\ threads.proc[3] = <<0>>
  /\ lossT.data[0] = MeanLoss /\ lossT.data[0] # snap.loss0

\* the input positions of sample i as the layouts place them
LogitPositions(i) ==
  IF engine.kind = "CE"
    THEN IF row_major(inT) THEN {2 * i, 2 * i + 1} ELSE {i, i + batch_size(inT)}
    ELSE {i}

\* C14: within one launch of any of the three kernels, under every
\* interleaving, an element of the input buffer is read and written by one
\* thread at most; a thread about to store to an element of a sample has read
\* all the input elements of that sample (for CrossEntropy_Kernel the
\* positions 2i and 2i+1, or i and i + batchSize); and no read has hit an
\* element already stored to in this launch.
C14_Disjoint ==
  threads.on =>
    /\ \A j \in DOMAIN inT.data : Cardinality(threads.rd[j] \cup threads.wr[j]) <= 1
    /\ \A t \in Tids :
         threads.pc[t] \in {"write", "write2"} => threads.got[t] = LogitPositions(threads.i[t])
    /\ ~threads.early
    /\ ~threads.stale

C14_Witness ==
  /\ engine.kind = "CE" /\ ~row_major(inT) /\ AllDone
  /\ threads.blockDim = 2 /\ batch_size(inT) = 4
  /\ \A j \in DOMAIN inT.data : threads.rd[j] = threads.wr[j] /\ Cardinality(threads.wr[j]) = 1
  /\ threads.wr[1] = {1} /\ threads.wr[5] = {1} /\ threads.wr[2] = {0}

\* the label buffer the launch started from with element j masked
MaskedAt(j) == [snap.lab EXCEPT ![j] = 0 - ONE]

\* what the same launch leaves when it starts from the label buffer lab
LaunchOn(lab) ==
  MultiCrossEntropy_Kernel(snap.in, lab, engine.weight, 0, inT.dims[1], inT.dims[2], scaler,
                           threads.gridDim, threads.blockDim)

\* C15: when a launch of MultiCrossEntropy_Kernel is over, an unmasked element
\* i holds weight[i mod labelsPerSample] times the gradient of its cross
\* entropy, divided by batchSize * labelsPerSample (whatever the number of
\* masked elements) and multiplied by the scaler; and had one more element j
\* been masked, every other element would hold the same value and the loss
\* would differ only by j's term in the sum of its thread, under the same
\* divisor.
C15_Divisor ==
  (threads.on /\ engine.kind = "MCE" /\ AllDone) =>
    LET size == inT.dims[1] * inT.dims[2]
        L    == inT.dims[2]
    IN  /\ \A i \in 0..(size - 1) :
             snap.lab[i] >= 0 - HALF =>
               inT.data[i] = Div(Mul(engine.weight[i % L],
                                     cross_entropy_loss_backward(snap.in[i], snap.lab[i])),
                                 size) * scaler
        /\ \A j \in 0..(size - 1) :
             LET r  == LaunchOn(MaskedAt(j))
                 tj == j % (threads.gridDim * threads.blockDim)
             IN  /\ \A i \in 0..(size - 1) : i # j => r.data[i] = inT.data[i]
                 /\ r.loss = lossT.data[0] - Div(0 - LocalLoss(tj), size)
                                           + Div(0 - (LocalLoss(tj) - ElemLoss(j)), size)

C15_Witness ==
  /\ engine.kind = "MCE" /\ AllDone
  /\ inT.dims = <<2, 3>> /\ threads.gridDim = 2 /\ threads.blockDim = 2
  /\ snap.lab[3] < 0 - HALF /\ inT.data[3] = 0
  /\ snap.lab[4] >= 0 - HALF /\ inT.data[4] # 0 /\ engine.weight[4 % 3] = 2 * ONE
  /\ snap.lab[1] >= 0 - HALF /\ inT.data[1] # 0
  /\ LaunchOn(MaskedAt(4)).loss # lossT.data[0]

\* the indices at which the kernel of the engine reads label[]: label[i] for
\* every i the loop takes
KernelLabelIdx == 0..(batch_size(inT) - 1)

\* the indices at which it reads and stores input[]
KernelInputIdx == UNION { SampleIdx(i) : i \in 0..(batch_size(inT) - 1) }

\* C16: when a CrossEntropyLoss or BinaryCrossEntropyLoss call on 2-dimensional
\* tensors has passed validation and launched its kernel, every index at which
\* the kernel accesses the label buffer is below the label tensor's element
\* count, and every index at which it accesses the input buffer is below the
\* input tensor's element count.
C16_InBounds ==
  ( /\ engine.kind \in {"CE", "BCE"}
    /\ call.nLaunch >= 1
    /\ Len(inT.dims) = 2 /\ Len(labT.dims) = 2 ) =>
    /\ \A i \in KernelLabelIdx : i < NumElems(labT)
    /\ \A j \in KernelInputIdx : j < NumElems(inT)

=============================================================================
